---- MODULE Spec2Model ----
(***************************************************************************)
(* A model of src/src/spinlock.rs: Spinlock<T>, its SpinlockGuard and the  *)
(* AtomicFlag helper.  Every access to one of the two atomics is one step  *)
(* of the calling thread; code that touches only the caller's own locals   *)
(* (building the guard struct, wrapping a result) is folded into the       *)
(* atomic access that precedes it.                                         *)
(***************************************************************************)
EXTENDS Integers, FiniteSets, Sequences, TLC

\* Bounds of the model.
NumThreads == 2
MaxVal == 1
NumIters == 2

Threads == 1..NumThreads
Values == 0..MaxVal

VARIABLES
    is_locked,      \* Spinlock.is_locked  (AtomicBool)
    is_poisoned,    \* Spinlock.is_poisoned (AtomicBool)
    data,           \* Spinlock.data (UnsafeCell<T>), T an integer
    alive,          \* FALSE once into_inner has consumed the Spinlock
    pc,             \* per thread: where it is inside the current call
    op,             \* per thread: the operation it is inside
    res,            \* per thread: the try_lock result Debug is matching on
    panicking,      \* per thread: std::thread::panicking()
    guards,         \* per thread: number of live SpinlockGuards it owns
    out,            \* what the step just taken returned to its caller
    tmp,            \* per thread: the value an increment worker read
    iter,           \* per thread: increments stored (increment race)
    stage,          \* per thread: next statement of the increment loop
    main,           \* the demonstration driver: where main() is, next spawn
    panic_dropped,  \* history: some guard has been dropped during a panic
    written,        \* history: the value most recently stored into data
    acquired_unwinding  \* history: the live guard was acquired by a thread
                        \* that was already unwinding, with no panic since

vars == <<is_locked, is_poisoned, data, alive, pc, op, res, panicking,
          guards, out, tmp, iter, stage, main, panic_dropped, written,
          acquired_unwinding>>

lockvars == <<is_locked, is_poisoned, data>>

\* The state of the increment workers, which only their own steps change.
worker == <<tmp, iter, stage>>

\* The history variables.
hist == <<panic_dropped, written, acquired_unwinding>>

\* main() of the driver when the Spinlock is used without it.
NoMain == [pc |-> "none", next |-> 0]

\* A step that returns nothing to a caller leaves NoRet in out; a step that
\* ends a call leaves the caller, the operation, the result and, where the
\* result carries a T, that value.
NoRet == [thread |-> 0, op |-> "none", val |-> "none", value |-> -1]

Ret(t, o, r, v) == [thread |-> t, op |-> o, val |-> r, value |-> v]

\* ------------------------------------------------------------------------
\* AtomicFlag for AtomicBool

\* A clear that leaves the flag as it is.
clear_noop(flag) == flag

\* clear: store(false)
clear(flag) == FALSE

\* A test_and_set that stores true and reports "was clear" without looking.
test_and_set_store(flag) == [new |-> TRUE, old |-> FALSE]

\* A test_and_set that flips the flag (fetch_xor) instead of setting it.
test_and_set_toggle(flag) == [new |-> ~flag, old |-> flag]

\* test_and_set: swap(true); .new is the value left in the flag, .old the
\* value returned.
test_and_set(flag) == [new |-> TRUE, old |-> flag]

\* raw_try_lock without its negation.
raw_try_lock_no_neg(flag) == [flag |-> TRUE, acquired |-> flag]

\* raw_try_lock: !is_locked.test_and_set(SeqCst), with the flag it leaves.
raw_try_lock(flag) ==
    LET r == test_and_set(flag) IN [flag |-> r.new, acquired |-> ~r.old]

\* raw_unlock: is_locked.clear(SeqCst)
raw_unlock(flag) == clear(flag)

\* A result that forgets to look at the poison flag.
lock_result_ok(poison) == "Ok"

\* The tail of lock/try_lock, and of get_mut/into_inner:
\* Err(PoisonError(..)) when the poison flag reads true, Ok(..) otherwise.
lock_result(poison) == IF poison THEN "Poisoned" ELSE "Ok"

\* A drop that never poisons.
drop_poison_never(poison, unwinding) == poison

\* A drop that stores panicking() into the flag unconditionally.
drop_poison_store(poison, unwinding) == unwinding

\* The poison store of Drop for SpinlockGuard: is_poisoned becomes true
\* when the dropping thread is panicking and is left alone otherwise.
drop_poison(poison, unwinding) == IF unwinding THEN TRUE ELSE poison

\* Debug for T (an integer) and for Spinlock<T>.
debug_value(v) == ToString(v)

debug_struct(field) == "Spinlock { data: " \o field \o " }"

\* A Debug that prints the value in every arm.
fmt_output_value(r, v) == debug_struct(debug_value(v))

\* The three arms of Debug for Spinlock: Ok and Poisoned print the value
\* behind the guard, WouldBlock prints the placeholder.
fmt_output(r, v) ==
    IF r = "WouldBlock" THEN debug_struct("<locked>")
    ELSE debug_struct(debug_value(v))

\* ------------------------------------------------------------------------
\* State after Spinlock::new(v)

New(v) ==
    /\ is_locked = FALSE
    /\ is_poisoned = FALSE
    /\ data = v
    /\ written = v
    /\ alive = TRUE
    /\ pc = [t \in Threads |-> "idle"]
    /\ op = [t \in Threads |-> "none"]
    /\ res = [t \in Threads |-> "none"]
    /\ panicking = [t \in Threads |-> FALSE]
    /\ guards = [t \in Threads |-> 0]
    /\ out = NoRet
    /\ tmp = [t \in Threads |-> 0]
    /\ iter = [t \in Threads |-> 0]
    /\ stage = [t \in Threads |-> "lock"]
    /\ panic_dropped = FALSE
    /\ acquired_unwinding = FALSE
    /\ main = NoMain

Init == \E v \in Values : New(v)

\* A thread between two calls on a Spinlock that still exists.
Ready(t) == alive /\ pc[t] = "idle"

\* &mut self / self by value: no other borrow of the Spinlock exists, so no
\* guard is alive and no thread is inside a call.
Exclusive(t) ==
    /\ Ready(t)
    /\ \A u \in Threads : pc[u] \in {"idle", "dead"} /\ guards[u] = 0

\* ------------------------------------------------------------------------
\* Spinlock::lock

\* The call: nothing shared is touched until raw_lock's first test_and_set.
\* (Says nothing about the increment workers' state.)
lock_call(t) ==
    /\ Ready(t)
    /\ pc' = [pc EXCEPT ![t] = "raw_lock"]
    /\ op' = [op EXCEPT ![t] = "lock"]
    /\ out' = NoRet
    /\ UNCHANGED <<lockvars, alive, res, panicking, guards, hist, main>>

lock(t) == lock_call(t) /\ UNCHANGED worker

\* A raw_lock written with `if` instead of `while`: one attempt, then on.
raw_lock_once(t) ==
    /\ pc[t] = "raw_lock"
    /\ is_locked' = raw_try_lock(is_locked).flag
    /\ pc' = [pc EXCEPT ![t] = "lock_check"]
    /\ guards' = [guards EXCEPT ![t] = @ + 1]
    /\ acquired_unwinding' = panicking[t]
    /\ out' = NoRet
    /\ UNCHANGED <<is_poisoned, data, alive, op, res, panicking, panic_dropped,
                   written, worker, main>>

\* raw_lock: one turn of `while !self.raw_try_lock() { }`.  On success the
\* loop ends and the guard is built (SpinlockGuard{ spinlock: self }).
raw_lock(t) ==
    /\ pc[t] = "raw_lock"
    /\ LET r == raw_try_lock(is_locked) IN
        /\ is_locked' = r.flag
        /\ pc' = [pc EXCEPT ![t] = IF r.acquired THEN "lock_check" ELSE @]
        /\ guards' = [guards EXCEPT ![t] = IF r.acquired THEN @ + 1 ELSE @]
        /\ acquired_unwinding' =
                IF r.acquired THEN panicking[t] ELSE acquired_unwinding
    /\ out' = NoRet
    /\ UNCHANGED <<is_poisoned, data, alive, op, res, panicking, panic_dropped,
                   written, worker, main>>

\* `if self.is_poisoned() { Err(PoisonError::new(guard)) } else { Ok(guard) }`
lock_return(t) ==
    /\ pc[t] = "lock_check"
    /\ out' = Ret(t, "lock", lock_result(is_poisoned), -1)
    /\ pc' = [pc EXCEPT ![t] = "idle"]
    /\ op' = [op EXCEPT ![t] = "none"]
    /\ UNCHANGED <<lockvars, alive, res, panicking, guards, hist, worker, main>>

\* ------------------------------------------------------------------------
\* Spinlock::try_lock, called by a client ("try_lock") or by Debug ("fmt")

\* The single raw_try_lock.  When it fails the call is over: WouldBlock goes
\* to the client, or to the match of Debug.  When it succeeds the guard is
\* built and the poison flag is read next.
try_lock_from(t, caller) ==
    /\ Ready(t)
    /\ LET r == raw_try_lock(is_locked) IN
        /\ is_locked' = r.flag
        /\ guards' = [guards EXCEPT ![t] = IF r.acquired THEN @ + 1 ELSE @]
        /\ pc' = [pc EXCEPT ![t] =
                    IF r.acquired THEN "try_check"
                    ELSE IF caller = "fmt" THEN "fmt_render" ELSE "idle"]
        /\ op' = [op EXCEPT ![t] =
                    IF r.acquired \/ caller = "fmt" THEN caller ELSE "none"]
        /\ res' = [res EXCEPT ![t] =
                    IF ~r.acquired /\ caller = "fmt" THEN "WouldBlock" ELSE @]
        /\ out' = IF ~r.acquired /\ caller # "fmt"
                  THEN Ret(t, "try_lock", "WouldBlock", -1) ELSE NoRet
        /\ acquired_unwinding' =
                IF r.acquired THEN panicking[t] ELSE acquired_unwinding
    /\ UNCHANGED <<is_poisoned, data, alive, panicking, panic_dropped, written,
                   worker, main>>

try_lock(t) == try_lock_from(t, "try_lock")

\* `if self.is_poisoned() { Err(Poisoned(..)) } else { Ok(guard) }`
try_lock_return(t) ==
    /\ pc[t] = "try_check"
    /\ LET r == lock_result(is_poisoned) IN
        IF op[t] = "fmt"
        THEN /\ res' = [res EXCEPT ![t] = r]
             /\ pc' = [pc EXCEPT ![t] = "fmt_render"]
             /\ out' = NoRet
             /\ UNCHANGED op
        ELSE /\ out' = Ret(t, "try_lock", r, -1)
             /\ pc' = [pc EXCEPT ![t] = "idle"]
             /\ op' = [op EXCEPT ![t] = "none"]
             /\ UNCHANGED res
    /\ UNCHANGED <<lockvars, alive, panicking, guards, hist, worker, main>>

\* ------------------------------------------------------------------------
\* Spinlock::is_poisoned: one SeqCst load

\* An is_poisoned that loads the wrong flag.
is_poisoned_load_held(t) ==
    /\ Ready(t)
    /\ out' = Ret(t, "is_poisoned", IF is_locked THEN "true" ELSE "false", -1)
    /\ UNCHANGED <<lockvars, alive, pc, op, res, panicking, guards, hist,
                   worker, main>>

is_poisoned_load(t) ==
    /\ Ready(t)
    /\ out' = Ret(t, "is_poisoned", IF is_poisoned THEN "true" ELSE "false", -1)
    /\ UNCHANGED <<lockvars, alive, pc, op, res, panicking, guards, hist,
                   worker, main>>

\* ------------------------------------------------------------------------
\* Drop for SpinlockGuard

\* A guard of thread t goes out of scope.
\* (Says nothing about the increment workers' state.)
drop_call(t) ==
    /\ pc[t] = "idle"
    /\ guards[t] > 0
    /\ pc' = [pc EXCEPT ![t] = "drop"]
    /\ op' = [op EXCEPT ![t] = "drop"]
    /\ out' = NoRet
    /\ UNCHANGED <<lockvars, alive, res, panicking, guards, hist, main>>

drop_guard(t) == drop_call(t) /\ UNCHANGED worker

\* A drop that releases the lock where it should store the poison.
drop_unlock_first(t) ==
    /\ pc[t] = "drop"
    /\ is_locked' = raw_unlock(is_locked)
    /\ pc' = [pc EXCEPT ![t] = "raw_unlock"]
    /\ out' = NoRet
    /\ UNCHANGED <<is_poisoned, data, alive, op, res, panicking, guards, hist,
                   worker, main>>

\* `if std::thread::panicking() { is_poisoned.store(true) }`
drop(t) ==
    /\ pc[t] = "drop"
    /\ is_poisoned' = drop_poison(is_poisoned, panicking[t])
    /\ pc' = [pc EXCEPT ![t] = "raw_unlock"]
    /\ out' = NoRet
    /\ UNCHANGED <<is_locked, data, alive, op, res, panicking, guards, hist,
                   worker, main>>

\* `self.spinlock.raw_unlock()`, after which the guard is gone; when the
\* guard was the temporary of Debug's match, fmt returns what it wrote.
drop_unlock(t) ==
    /\ pc[t] = "raw_unlock"
    /\ is_locked' = raw_unlock(is_locked)
    /\ guards' = [guards EXCEPT ![t] = @ - 1]
    /\ panic_dropped' = (panic_dropped \/ panicking[t])
    /\ pc' = [pc EXCEPT ![t] = "idle"]
    /\ op' = [op EXCEPT ![t] = "none"]
    /\ res' = [res EXCEPT ![t] = "none"]
    /\ out' = IF op[t] = "fmt" THEN Ret(t, "fmt", res[t], -1) ELSE NoRet
    /\ acquired_unwinding' = FALSE
    /\ UNCHANGED <<is_poisoned, data, alive, panicking, written, worker, main>>

\* ------------------------------------------------------------------------
\* Debug for Spinlock

fmt(t) == try_lock_from(t, "fmt")

\* The match on try_lock's result writes the struct.  In the WouldBlock arm
\* fmt is over; in the other two the guard is a temporary of the match and
\* is dropped when the match ends.
fmt_render(t) ==
    /\ pc[t] = "fmt_render"
    /\ LET text == fmt_output(res[t], data) IN
        IF res[t] = "WouldBlock"
        THEN /\ out' = Ret(t, "fmt", text, -1)
             /\ pc' = [pc EXCEPT ![t] = "idle"]
             /\ op' = [op EXCEPT ![t] = "none"]
             /\ res' = [res EXCEPT ![t] = "none"]
        ELSE /\ out' = NoRet
             /\ pc' = [pc EXCEPT ![t] = "drop"]
             /\ res' = [res EXCEPT ![t] = text]
             /\ UNCHANGED op
    /\ UNCHANGED <<lockvars, alive, panicking, guards, hist, worker, main>>

\* ------------------------------------------------------------------------
\* Deref / DerefMut for SpinlockGuard

\* x = *guard   (says nothing about the increment workers' other state)
deref(t) ==
    /\ pc[t] = "idle"
    /\ guards[t] > 0
    /\ tmp' = [tmp EXCEPT ![t] = data]
    /\ out' = NoRet
    /\ UNCHANGED <<lockvars, alive, pc, op, res, panicking, guards, hist, main>>

\* *guard = v   (says nothing about the increment workers' state)
deref_mut(t, v) ==
    /\ pc[t] = "idle"
    /\ guards[t] > 0
    /\ data' = v
    /\ written' = v
    /\ out' = NoRet
    /\ UNCHANGED <<is_locked, is_poisoned, alive, pc, op, res, panicking,
                   guards, panic_dropped, acquired_unwinding, main>>

write(t) == \E v \in Values : deref_mut(t, v) /\ UNCHANGED worker

\* ------------------------------------------------------------------------
\* Spinlock::get_mut and Spinlock::into_inner

get_mut(t) ==
    /\ Exclusive(t)
    /\ out' = Ret(t, "get_mut", lock_result(is_poisoned), data)
    /\ UNCHANGED <<lockvars, alive, pc, op, res, panicking, guards, hist,
                   worker, main>>

\* A store through the &mut T that get_mut has just returned, Ok or
\* Poisoned alike.
get_mut_store(t) ==
    /\ Exclusive(t)
    /\ out.op = "get_mut" /\ out.thread = t
    /\ \E v \in Values : data' = v /\ written' = v
    /\ out' = NoRet
    /\ UNCHANGED <<is_locked, is_poisoned, alive, pc, op, res, panicking,
                   guards, panic_dropped, acquired_unwinding, worker, main>>

\* An into_inner that hands back a default value.
into_inner_value_default(v) == 0

\* The value moved out by into_inner: ptr::read(data), mem::forget(self),
\* then UnsafeCell::into_inner.
into_inner_value(v) == v

into_inner(t) ==
    /\ Exclusive(t)
    /\ alive' = FALSE
    /\ out' = Ret(t, "into_inner", lock_result(is_poisoned),
                  into_inner_value(data))
    /\ UNCHANGED <<lockvars, pc, op, res, panicking, guards, hist, worker,
                   main>>

\* ------------------------------------------------------------------------
\* Panics of the threads that use the lock

\* panic!() in client code between two calls.
panic(t) ==
    /\ Ready(t)
    /\ ~panicking[t]
    /\ panicking' = [panicking EXCEPT ![t] = TRUE]
    /\ acquired_unwinding' =
            IF guards[t] > 0 THEN FALSE ELSE acquired_unwinding
    /\ out' = NoRet
    /\ UNCHANGED <<lockvars, alive, pc, op, res, guards, panic_dropped, written,
                   worker, main>>

\* std::panic::catch_unwind stops the unwind; guards owned by frames
\* outside the closure are still alive.
catch_unwind(t) ==
    /\ Ready(t)
    /\ panicking[t]
    /\ panicking' = [panicking EXCEPT ![t] = FALSE]
    /\ out' = NoRet
    /\ UNCHANGED <<lockvars, alive, pc, op, res, guards, hist, worker, main>>

\* The unwind reaches the top of the thread: every frame, and with it
\* every guard of the thread, has been dropped.
thread_exit(t) ==
    /\ Ready(t)
    /\ panicking[t]
    /\ guards[t] = 0
    /\ pc' = [pc EXCEPT ![t] = "dead"]
    /\ out' = NoRet
    /\ UNCHANGED <<lockvars, alive, op, res, panicking, guards, hist, worker,
                   main>>

\* ------------------------------------------------------------------------

Next ==
    \E t \in Threads :
        \/ lock(t)
        \/ raw_lock(t)
        \/ lock_return(t)
        \/ try_lock(t)
        \/ try_lock_return(t)
        \/ is_poisoned_load(t)
        \/ drop_guard(t)
        \/ drop(t)
        \/ drop_unlock(t)
        \/ fmt(t)
        \/ fmt_render(t)
        \/ write(t)
        \/ get_mut(t)
        \/ get_mut_store(t)
        \/ into_inner(t)
        \/ panic(t)
        \/ catch_unwind(t)
        \/ thread_exit(t)

Spec == Init /\ [][Next]_vars

\* ------------------------------------------------------------------------
\* The increment race: every thread runs NumIters times
\*     { let mut g = spinlock.lock(); let x = *g; *g = x + 1; }
\* on a Spinlock that starts at 0, and nothing panics.

IncInit == New(0)

inc_lock(t) ==
    /\ stage[t] = "lock"
    /\ iter[t] < NumIters
    /\ lock_call(t)
    /\ stage' = [stage EXCEPT ![t] = "read"]
    /\ UNCHANGED <<tmp, iter>>

inc_read(t) ==
    /\ stage[t] = "read"
    /\ deref(t)
    /\ stage' = [stage EXCEPT ![t] = "write"]
    /\ UNCHANGED iter

inc_write(t) ==
    /\ stage[t] = "write"
    /\ deref_mut(t, tmp[t] + 1)
    /\ iter' = [iter EXCEPT ![t] = @ + 1]
    /\ stage' = [stage EXCEPT ![t] = "drop"]
    /\ UNCHANGED tmp

inc_drop(t) ==
    /\ stage[t] = "drop"
    /\ drop_call(t)
    /\ stage' = [stage EXCEPT ![t] = "lock"]
    /\ UNCHANGED <<tmp, iter>>

IncNext ==
    \E t \in Threads :
        \/ inc_lock(t)
        \/ raw_lock(t)
        \/ lock_return(t)
        \/ inc_read(t)
        \/ inc_write(t)
        \/ inc_drop(t)
        \/ drop(t)
        \/ drop_unlock(t)

SpecInc == IncInit /\ [][IncNext]_vars

\* ------------------------------------------------------------------------
\* The demonstration driver (main.rs).  data is the identifier most
\* recently written to stdout (0: none yet), iter[w] the number of lines
\* worker w has written.

NUM_THREADS == 8

MaxLines == 16

Workers == 1..NUM_THREADS

MainInit ==
    /\ is_locked = FALSE
    /\ is_poisoned = FALSE
    /\ data = 0
    /\ written = 0
    /\ alive = TRUE
    /\ pc = [w \in Workers |-> "unspawned"]
    /\ op = [w \in Workers |-> "none"]
    /\ res = [w \in Workers |-> "none"]
    /\ panicking = [w \in Workers |-> FALSE]
    /\ guards = [w \in Workers |-> 0]
    /\ out = NoRet
    /\ tmp = [w \in Workers |-> 0]
    /\ iter = [w \in Workers |-> 0]
    /\ stage = [w \in Workers |-> "lock"]
    /\ panic_dropped = FALSE
    /\ acquired_unwinding = FALSE
    /\ main = [pc |-> "start", next |-> 1]

\* `let threads = (0..NUM_THREADS).into_iter().map(..)` builds a lazy
\* adapter and runs no closure; `println!("spawned {} threads", ..)` is the
\* first thing main does that can be seen.
main_report ==
    /\ main.pc = "start"
    /\ main' = [main EXCEPT !.pc = "for"]
    /\ out' = NoRet
    /\ UNCHANGED <<lockvars, alive, pc, op, res, panicking, guards, hist,
                   worker>>

\* `for thread in threads`: next() on the adapter runs the closure for one
\* element, which clones the Arc and spawns one worker.
main_spawn ==
    /\ main.pc = "for"
    /\ main.next <= NUM_THREADS
    /\ pc[main.next] = "unspawned"
    /\ pc' = [pc EXCEPT ![main.next] = "idle"]
    /\ main' = [main EXCEPT !.pc = "join"]
    /\ out' = NoRet
    /\ UNCHANGED <<lockvars, alive, op, res, panicking, guards, hist, worker>>

\* `thread.join().expect("couldn't join thread")`: blocks until the worker
\* just spawned is over; Err when it panicked, and expect then panics main.
main_join ==
    /\ main.pc = "join"
    /\ pc[main.next] = "dead"
    /\ main' = IF panicking[main.next]
               THEN [main EXCEPT !.pc = "panicked"]
               ELSE [pc |-> IF main.next = NUM_THREADS THEN "done" ELSE "for",
                     next |-> main.next + 1]
    /\ out' = NoRet
    /\ UNCHANGED <<lockvars, alive, pc, op, res, panicking, guards, hist,
                   worker>>

\* print: `spinlock.lock()` at the top of `loop { }`.
print_lock(w) ==
    /\ stage[w] = "lock"
    /\ iter[w] < MaxLines
    /\ lock_call(w)
    /\ stage' = [stage EXCEPT ![w] = "expect"]
    /\ UNCHANGED <<tmp, iter>>

\* `.expect("poisoned").write_fmt(..).expect("couldn't write to stdout")`
\* on what lock() returned (the guard is held, so the flag is still the one
\* lock() read).  The write may fail; either expect panics with the
\* temporary guard alive.
print_write(w) ==
    /\ stage[w] = "expect"
    /\ pc[w] = "idle"
    /\ guards[w] = 1
    /\ \E ok \in BOOLEAN :
        IF lock_result(is_poisoned) = "Ok" /\ ok
        THEN /\ deref_mut(w, w)
             /\ iter' = [iter EXCEPT ![w] = @ + 1]
             /\ stage' = [stage EXCEPT ![w] = "drop"]
             /\ UNCHANGED tmp
        ELSE /\ panicking' = [panicking EXCEPT ![w] = TRUE]
             /\ stage' = [stage EXCEPT ![w] = "unwind"]
             /\ out' = NoRet
             /\ UNCHANGED <<lockvars, alive, pc, op, res, guards, hist, main,
                            tmp, iter>>

\* The temporary guard dies at the end of the statement, or in the unwind.
print_drop(w) ==
    /\ stage[w] \in {"drop", "unwind"}
    /\ drop_call(w)
    /\ stage' = [stage EXCEPT ![w] = IF @ = "drop" THEN "lock" ELSE "exit"]
    /\ UNCHANGED <<tmp, iter>>

\* The unwind leaves print and ends the worker.
print_exit(w) == stage[w] = "exit" /\ thread_exit(w)

MainNext ==
    \/ main_report
    \/ main_spawn
    \/ main_join
    \/ \E w \in Workers :
        \/ print_lock(w)
        \/ raw_lock(w)
        \/ lock_return(w)
        \/ print_write(w)
        \/ print_drop(w)
        \/ drop(w)
        \/ drop_unlock(w)
        \/ print_exit(w)

SpecMain == MainInit /\ [][MainNext]_vars

\* ========================================================================
\* Properties

RECURSIVE SumGuards(_)
SumGuards(n) == IF n = 0 THEN 0 ELSE guards[n] + SumGuards(n - 1)

\* Number of SpinlockGuards alive, whoever owns them and however they were
\* handed out (Ok or inside a Poisoned error).
LiveGuards == SumGuards(NumThreads)

\* C1: mutual exclusion - at most one SpinlockGuard of the Spinlock is alive
\* in any reachable state, whatever lock, try_lock, Debug and drops (normal
\* or panicking) the threads interleave.
MutualExclusion == LiveGuards <= 1

\* A guard handed out inside a Poisoned error is alive while another thread
\* spins in lock().
C1_Witness ==
    /\ out.op = "lock" /\ out.val = "Poisoned"
    /\ guards[out.thread] = 1
    /\ \E u \in Threads : u # out.thread /\ pc[u] = "raw_lock"

\* All increment workers have finished their NumIters critical sections.
IncDone ==
    \A t \in Threads :
        iter[t] = NumIters /\ pc[t] = "idle" /\ guards[t] = 0
        /\ stage[t] = "lock"

\* C2: no lost updates - when the NumThreads workers have each done NumIters
\* lock/read/write+1/drop rounds on a lock that started at 0, the value is
\* NumThreads * NumIters and the lock is unpoisoned.
NoLostUpdates ==
    IncDone => data = NumThreads * NumIters /\ ~is_poisoned /\ ~is_locked

C2_Witness == IncDone /\ data = NumThreads * NumIters

\* C3: a guard dropped by a panicking thread leaves the lock poisoned and
\* not held: once such a drop has completed is_poisoned reads true, the step
\* that completes it clears is_locked, and every lock() that returns
\* afterwards returns its guard inside Poisoned.
PanicDropPoisons ==
    /\ [](panic_dropped => is_poisoned)
    /\ [](out.op = "lock" /\ panic_dropped
            => out.val = "Poisoned" /\ guards[out.thread] = 1)
    /\ [][\A t \in Threads :
            (pc[t] = "raw_unlock" /\ pc'[t] = "idle" /\ panicking[t])
                => (panic_dropped' /\ is_poisoned' /\ ~is_locked')]_vars

\* After a panicking drop, another thread's lock() has returned Poisoned
\* with the guard.
C3_Witness ==
    /\ panic_dropped
    /\ out.op = "lock" /\ out.val = "Poisoned"
    /\ guards[out.thread] = 1
    /\ \E u \in Threads : u # out.thread /\ (panicking[u] \/ pc[u] = "dead")

\* C4: poison is monotonic - no step of any operation takes is_poisoned
\* from true back to false.
PoisonMonotonic == [][is_poisoned => is_poisoned']_vars

\* A guard is being dropped normally on a lock that is already poisoned.
C4_Witness ==
    is_poisoned /\ \E t \in Threads : pc[t] = "raw_unlock" /\ ~panicking[t]

\* Thread t's step is a whole-or-first step of a client's try_lock().
TryLockCalled(t) ==
    /\ pc[t] = "idle"
    /\ \/ (out'.op = "try_lock" /\ out'.thread = t)
       \/ (pc'[t] = "try_check" /\ op'[t] = "try_lock")

\* C5: try_lock() on a held lock returns WouldBlock at once and changes
\* neither flag nor the set of live guards.
TryLockHeldWouldBlock ==
    [][\A t \in Threads :
        (TryLockCalled(t) /\ is_locked)
            => /\ out' = Ret(t, "try_lock", "WouldBlock", -1)
               /\ pc'[t] = "idle"
               /\ UNCHANGED <<is_locked, is_poisoned, data, guards>>]_vars

\* The caller itself holds the guard (tests::already_locked) and got
\* WouldBlock.
C5_Witness ==
    /\ out.op = "try_lock" /\ out.val = "WouldBlock"
    /\ guards[out.thread] = 1 /\ is_locked

\* The step just taken returned from an operation that hands out the guard
\* or the value.
Acquired ==
    \/ out.op \in {"lock", "get_mut", "into_inner"}
    \/ (out.op = "try_lock" /\ out.val # "WouldBlock")

\* C6: poison is surfaced by every acquisition-style return - lock, an
\* acquiring try_lock, get_mut and into_inner return Poisoned (with the
\* guard or the value) once a guard has been dropped during a panic, and Ok
\* while the poison flag is unset (which, poison being monotonic, is when it
\* has never been set).
PoisonSurfaced ==
    Acquired =>
        /\ panic_dropped => out.val = "Poisoned"
        /\ ~is_poisoned => out.val = "Ok"
        /\ out.op \in {"lock", "try_lock"} => guards[out.thread] = 1
        /\ out.op \in {"get_mut", "into_inner"} => out.value = data

\* get_mut on a lock poisoned by an earlier panicking drop.
C6_Witness ==
    panic_dropped /\ out.op = "get_mut" /\ out.val = "Poisoned"

\* C7: lock() never fails because of contention - raw_lock is left only by
\* the step in which the caller itself takes is_locked from false to true,
\* lock() returns Ok or Poisoned with the guard and nothing else, and while
\* any guard is alive a thread spinning in lock() stays spinning.
LockWaitsAndAcquires ==
    /\ [](out.op = "lock"
            => /\ out.val \in {"Ok", "Poisoned"}
               /\ is_locked
               /\ \A u \in Threads :
                    guards[u] = IF u = out.thread THEN 1 ELSE 0)
    /\ [][\A t \in Threads :
            /\ (pc[t] = "raw_lock" /\ pc'[t] # "raw_lock")
                => /\ ~is_locked /\ is_locked'
                   /\ pc'[t] = "lock_check"
                   /\ guards'[t] = guards[t] + 1
            /\ (pc[t] = "raw_lock" /\ LiveGuards > 0)
                => pc'[t] = "raw_lock"]_vars

\* lock() has returned Ok to one thread while another is still spinning.
C7_Witness ==
    /\ out.op = "lock" /\ out.val = "Ok"
    /\ \E u \in Threads : u # out.thread /\ pc[u] = "raw_lock"

\* C8: try_lock() makes one test-and-set and never spins - its first step
\* leaves is_locked true and returns WouldBlock exactly when is_locked was
\* true before it; otherwise that step has acquired the lock, and the next
\* step of the call returns the guard, Poisoned exactly when is_poisoned is
\* set, without touching is_locked again.
TryLockSingleAttempt ==
    /\ [](out.op = "try_lock"
            => /\ out.val \in {"Ok", "Poisoned", "WouldBlock"}
               /\ out.val # "WouldBlock" => guards[out.thread] = 1)
    /\ [][\A t \in Threads :
            /\ TryLockCalled(t)
                => /\ is_locked'
                   /\ (out' = Ret(t, "try_lock", "WouldBlock", -1)) <=> is_locked
                   /\ is_locked => pc'[t] = "idle" /\ guards' = guards
                   /\ ~is_locked
                        => /\ pc'[t] = "try_check"
                           /\ guards'[t] = guards[t] + 1
                           /\ out' = NoRet
            /\ (pc[t] = "try_check" /\ op[t] = "try_lock"
                    /\ pc'[t] # "try_check")
                => /\ pc'[t] = "idle"
                   /\ out' = Ret(t, "try_lock",
                                 IF is_poisoned THEN "Poisoned" ELSE "Ok", -1)
                   /\ UNCHANGED <<is_locked, is_poisoned, guards>>]_vars

\* try_lock() has acquired a poisoned lock and returned the guard inside
\* Poisoned.
C8_Witness ==
    /\ out.op = "try_lock" /\ out.val = "Poisoned"
    /\ guards[out.thread] = 1 /\ is_poisoned

\* C9: into_inner() returns the protected value as last written (the value
\* given to new() when nothing was written), as Ok when the lock is
\* unpoisoned and inside Poisoned when it is poisoned.
IntoInnerKeepsValue ==
    out.op = "into_inner" =>
        /\ out.value = written
        /\ out.val = IF is_poisoned THEN "Poisoned" ELSE "Ok"
        /\ panic_dropped => out.val = "Poisoned"

\* into_inner on a poisoned lock has returned Poisoned carrying a nonzero
\* value.
C9_Witness ==
    out.op = "into_inner" /\ out.val = "Poisoned" /\ out.value = MaxVal

\* C10: is_poisoned() observes without acquiring - it is enabled for every
\* thread between calls whatever is_locked is, and the step that makes the
\* call returns the current poison flag and changes neither flag, nor the
\* value, nor any guard, nor where any thread is.
IsPoisonedObserves ==
    /\ [](\A t \in Threads : Ready(t) => ENABLED is_poisoned_load(t))
    /\ [][out'.op = "is_poisoned"
            => /\ out'.val = IF is_poisoned THEN "true" ELSE "false"
               /\ UNCHANGED <<is_locked, is_poisoned, data, guards, pc>>]_vars

\* is_poisoned() has returned true to one thread while another holds the
\* guard.
C10_Witness ==
    /\ out.op = "is_poisoned" /\ out.val = "true"
    /\ is_locked
    /\ \E u \in Threads : u # out.thread /\ guards[u] = 1

\* Thread t's step is the first step of Debug formatting.
FmtCalled(t) == pc[t] = "idle" /\ op'[t] = "fmt"

\* C11: Debug formatting of a held lock does not block - its first step
\* finds the lock held and changes neither flag nor any guard, its second
\* step is always enabled and returns the "<locked>" placeholder, again
\* changing neither flag nor any guard.
FmtHeldPlaceholder ==
    /\ [](\A t \in Threads : pc[t] = "fmt_render" => ENABLED fmt_render(t))
    /\ [][\A t \in Threads :
            /\ (FmtCalled(t) /\ is_locked)
                => /\ pc'[t] = "fmt_render" /\ res'[t] = "WouldBlock"
                   /\ UNCHANGED <<is_locked, is_poisoned, data, guards>>
            /\ (pc[t] = "fmt_render" /\ res[t] = "WouldBlock"
                    /\ pc'[t] # "fmt_render")
                => /\ out' = Ret(t, "fmt", "Spinlock { data: <locked> }", -1)
                   /\ pc'[t] = "idle"
                   /\ UNCHANGED <<is_locked, is_poisoned, data, guards>>]_vars

\* Debug has returned the placeholder while another thread holds the guard.
C11_Witness ==
    /\ out.op = "fmt" /\ out.val = "Spinlock { data: <locked> }"
    /\ is_locked
    /\ \E u \in Threads : u # out.thread /\ guards[u] = 1

\* C12: is_locked is true exactly while a SpinlockGuard of the Spinlock is
\* alive, also after guards have been dropped during a panic.
HeldIffGuard == is_locked <=> LiveGuards = 1

\* A guard is alive, and is_locked set, after an earlier guard was dropped
\* during a panic.
C12_Witness == panic_dropped /\ is_locked /\ LiveGuards = 1

\* C13: release ordering - a panicking drop has stored the poison before it
\* clears is_locked: poison is set in every state in which such a drop is
\* about to unlock and in the step that unlocks, so no lock() or try_lock()
\* returning after that release returns Ok.
ReleaseOrdering ==
    /\ [](\A t \in Threads :
            pc[t] = "raw_unlock" /\ panicking[t] => is_poisoned)
    /\ [](out.op \in {"lock", "try_lock"} /\ out.val = "Ok" => ~panic_dropped)
    /\ [][\A t \in Threads :
            (panicking[t] /\ pc[t] \in {"drop", "raw_unlock"}
                /\ is_locked /\ ~is_locked')
                => (pc[t] = "raw_unlock" /\ is_poisoned /\ is_poisoned')]_vars

\* A panicking drop has stored the poison and not yet unlocked, while
\* another thread spins in lock().
C13_Witness ==
    \E t, u \in Threads :
        /\ t # u
        /\ pc[t] = "raw_unlock" /\ panicking[t]
        /\ is_poisoned /\ is_locked
        /\ pc[u] = "raw_lock"

\* C14: the poison reported by lock() and try_lock() is the poison at the
\* moment of acquisition - while a thread is between its successful
\* test-and-set and its read of the poison flag no step changes the flag,
\* and the result it then returns is the flag it reads.
PoisonReadAtAcquisition ==
    [][\A t \in Threads :
        (pc[t] \in {"lock_check", "try_check"})
            => /\ is_poisoned' = is_poisoned
               /\ (pc'[t] = "idle")
                    => out' = Ret(t, op[t],
                                  IF is_poisoned THEN "Poisoned" ELSE "Ok", -1)
       ]_vars

\* A thread has claimed a poisoned lock and not yet read the flag, while
\* another thread is unwinding.
C14_Witness ==
    \E t, u \in Threads :
        /\ t # u
        /\ pc[t] = "try_check" /\ op[t] = "try_lock"
        /\ is_poisoned
        /\ panicking[u]

\* C15: guard destruction is the only path that clears is_locked - every
\* step that takes is_locked from true to false is the raw_unlock of a drop
\* by the thread that owns the one live guard, and every step that ends a
\* guard clears is_locked.
OnlyDropClearsHeld ==
    [][/\ (is_locked /\ ~is_locked')
            => \E t \in Threads :
                /\ pc[t] = "raw_unlock" /\ pc'[t] = "idle"
                /\ guards[t] = 1 /\ guards'[t] = 0
                /\ LiveGuards = 1
       /\ \A t \in Threads :
            guards'[t] < guards[t] => (is_locked /\ ~is_locked')]_vars

\* Debug has formatted an unheld lock: its temporary guard is gone and
\* is_locked is clear again.
C15_Witness ==
    /\ out.op = "fmt" /\ out.val # "Spinlock { data: <locked> }"
    /\ ~is_locked /\ LiveGuards = 0

\* C16: a guard acquired by a thread that was already unwinding, and
\* dropped without a new panic, does not poison the lock - the poison step
\* of the drop of such a guard leaves an unpoisoned lock unpoisoned.
NormalDropNeverPoisons ==
    [][\A t \in Threads :
        (pc[t] = "drop" /\ pc'[t] = "raw_unlock" /\ acquired_unwinding)
            => (~is_poisoned => ~is_poisoned')]_vars

\* C17: Debug notes poison - when the non-blocking acquisition of fmt comes
\* back Poisoned, the text rendered differs from the text rendered for an
\* unpoisoned lock holding the same value.
FmtNotesPoison ==
    [][\A t \in Threads :
        (pc[t] = "fmt_render" /\ res[t] = "Poisoned" /\ pc'[t] = "drop")
            => res'[t] # fmt_output("Ok", data)]_vars

\* ------------------------------------------------------------------------
\* Clients that give every guard back: lock() is only called by a thread
\* that holds no guard, and a guard that is held is eventually dropped.
\* The steps inside a call and the drop of a held guard are weakly fair
\* for every thread; starting a call, panicking and catching are not.

lock_unheld(t) == guards[t] = 0 /\ lock(t)

thread_step(t) ==
    \/ raw_lock(t)
    \/ lock_return(t)
    \/ try_lock_return(t)
    \/ drop_guard(t)
    \/ drop(t)
    \/ drop_unlock(t)

NextFair ==
    \E t \in Threads :
        \/ lock_unheld(t)
        \/ raw_lock(t)
        \/ lock_return(t)
        \/ try_lock(t)
        \/ try_lock_return(t)
        \/ drop_guard(t)
        \/ drop(t)
        \/ drop_unlock(t)
        \/ panic(t)
        \/ catch_unwind(t)
        \/ thread_exit(t)

SpecFair ==
    /\ Init
    /\ [][NextFair]_vars
    /\ \A t \in Threads : WF_vars(thread_step(t))

Spinning == \E t \in Threads : pc[t] = "raw_lock"

JustAcquired == \E t \in Threads : pc[t] \in {"lock_check", "try_check"}

\* C18: deadlock freedom - with weakly fair thread steps and every guard
\* eventually dropped, whenever some thread spins in lock() some thread
\* eventually acquires the lock; and when the holder is dropping its guard
\* during a panic while some thread spins, some thread eventually acquires
\* the (then poisoned) lock.
SpinnersEventuallyAcquire ==
    /\ Spinning ~> JustAcquired
    /\ (Spinning /\ \E u \in Threads : pc[u] = "drop" /\ panicking[u])
            ~> (JustAcquired /\ is_poisoned)

\* A thread has acquired the lock after a guard was dropped during a panic,
\* while another thread is still spinning.
C18_Witness ==
    \E t, u \in Threads :
        /\ t # u
        /\ pc[t] = "lock_check" /\ panic_dropped
        /\ pc[u] = "raw_lock"

\* C19: the lock is not re-entrant - a thread that calls lock() while it
\* holds the live guard stays in raw_lock's loop at every step, is_locked
\* stays true and the thread never owns a second guard; try_lock() by a
\* thread that holds the live guard returns WouldBlock.
NotReentrant ==
    /\ [](\A t \in Threads : guards[t] <= 1)
    /\ [][\A t \in Threads :
            /\ (pc[t] = "raw_lock" /\ guards[t] = 1)
                => (is_locked /\ is_locked'
                    /\ pc'[t] = "raw_lock" /\ guards'[t] = 1)
            /\ (TryLockCalled(t) /\ guards[t] = 1)
                => (out' = Ret(t, "try_lock", "WouldBlock", -1)
                    /\ is_locked' /\ guards'[t] = 1)]_vars

\* A thread spins in lock() on the lock it holds itself.
C19_Witness ==
    \E t \in Threads :
        /\ pc[t] = "raw_lock" /\ guards[t] = 1
        /\ is_locked /\ LiveGuards = 1

\* C20: the driver reports the worker count after the workers are spawned -
\* once main is past its println every one of the NUM_THREADS workers has
\* been spawned.
ReportAfterSpawn ==
    main.pc # "start" => \A w \in Workers : pc[w] # "unspawned"

====
